---- MODULE Spec2Model ----
(***************************************************************************)
(* Model of instaPFP: the srcset selector, the embedded-data extractor and *)
(* the two resolution entry points, fetch_pfp (src/api.py) and             *)
(* download_pfp (src/main.py).                                             *)
(*                                                                         *)
(* Text is modelled as TLA+ strings, read character by character with      *)
(* SubSeq.  U+2019 (right single quotation mark) cannot be written in a    *)
(* TLA+ string and is represented by the character RSQUO.                  *)
(***************************************************************************)
EXTENDS Integers, Sequences, FiniteSets, TLC

(***************************************************************************)
(* Optional values: Python's None and a present value.                     *)
(***************************************************************************)
None == <<>>

Some(v) == <<v>>

(***************************************************************************)
(* Character classes and scanning primitives of Python's re engine.        *)
(***************************************************************************)
\* the character of s at position i; "" outside s
Ch(s, i) == IF i >= 1 /\ i <= Len(s) THEN SubSeq(s, i, i) ELSE ""

Whitespace == {" ", "\t", "\n", "\r", "\f"}

Digits == {"0", "1", "2", "3", "4", "5", "6", "7", "8", "9"}

DigitValue(c) ==
  CASE c = "0" -> 0 [] c = "1" -> 1 [] c = "2" -> 2 [] c = "3" -> 3
    [] c = "4" -> 4 [] c = "5" -> 5 [] c = "6" -> 6 [] c = "7" -> 7
    [] c = "8" -> 8 [] c = "9" -> 9

\* the literal lit occurs in s at position i
StartsAt(s, i, lit) ==
  /\ i >= 1
  /\ i + Len(lit) - 1 <= Len(s)
  /\ SubSeq(s, i, i + Len(lit) - 1) = lit

\* first position >= i whose character is outside cls (Len(s)+1 if none):
\* the end of a greedy run of a character class
SkipIn(s, i, cls) ==
  IF i > Len(s) THEN i
  ELSE CHOOSE j \in i..(Len(s) + 1) :
         /\ j = Len(s) + 1 \/ Ch(s, j) \notin cls
         /\ \A k \in i..(j - 1) : Ch(s, k) \in cls

\* first position >= i whose character is inside cls: greedy negated class
SkipNotIn(s, i, cls) ==
  IF i > Len(s) THEN i
  ELSE CHOOSE j \in i..(Len(s) + 1) :
         /\ j = Len(s) + 1 \/ Ch(s, j) \in cls
         /\ \A k \in i..(j - 1) : Ch(s, k) \notin cls

\* int() of a non-empty run of decimal digits
RECURSIVE ParseInt(_)
ParseInt(d) ==
  IF Len(d) = 0 THEN 0
  ELSE 10 * ParseInt(SubSeq(d, 1, Len(d) - 1)) + DigitValue(Ch(d, Len(d)))

\* str.split(sep) for a one-character separator
RECURSIVE Split(_, _)
Split(s, sep) ==
  LET k == SkipNotIn(s, 1, {sep})
  IN  IF k > Len(s) THEN <<s>>
      ELSE <<SubSeq(s, 1, k - 1)>> \o Split(SubSeq(s, k + 1, Len(s)), sep)

RECURSIVE LastNonWs(_, _)
LastNonWs(s, i) ==
  IF i >= 1 /\ Ch(s, i) \in Whitespace THEN LastNonWs(s, i - 1) ELSE i

\* str.strip()
Strip(s) == SubSeq(s, SkipIn(s, 1, Whitespace), LastNonWs(s, Len(s)))

(***************************************************************************)
(* _extract_largest_from_srcset                                            *)
(***************************************************************************)
\* re.match(r"(\S+)\s+(\d+)w", part): anchored at the start of part, not at
\* its end.  Each greedy run is followed by a character outside its class,
\* so the match, when there is one, is unique.
SrcsetMatch(part) ==
  LET e1 == SkipNotIn(part, 1, Whitespace)
      e2 == SkipIn(part, e1, Whitespace)
      e3 == SkipIn(part, e2, Digits)
  IN  IF e1 > 1 /\ e2 > e1 /\ e3 > e2 /\ StartsAt(part, e3, "w")
      THEN Some([url |-> SubSeq(part, 1, e1 - 1),
                 width |-> ParseInt(SubSeq(part, e2, e3 - 1))])
      ELSE None

\* the loop of lines 48-56: one candidate per matching part, in input order
RECURSIVE SrcsetCandidates(_)
SrcsetCandidates(parts) ==
  IF parts = <<>> THEN <<>>
  ELSE SrcsetMatch(Strip(Head(parts))) \o SrcsetCandidates(Tail(parts))

\* a descending sort that is not stable: x goes before its equals
RECURSIVE InsertDescMutant(_, _)
InsertDescMutant(sorted, x) ==
  IF sorted = <<>> THEN <<x>>
  ELSE IF Head(sorted).width > x.width
       THEN <<Head(sorted)>> \o InsertDescMutant(Tail(sorted), x)
       ELSE <<x>> \o sorted

\* list.sort(key=width, reverse=True): stable, descending.  Insert x after
\* every element whose key is >= the key of x.
RECURSIVE InsertDesc(_, _)
InsertDesc(sorted, x) ==
  IF sorted = <<>> THEN <<x>>
  ELSE IF Head(sorted).width >= x.width
       THEN <<Head(sorted)>> \o InsertDesc(Tail(sorted), x)
       ELSE <<x>> \o sorted

RECURSIVE SortDesc(_)
SortDesc(xs) ==
  IF xs = <<>> THEN <<>>
  ELSE InsertDesc(SortDesc(SubSeq(xs, 1, Len(xs) - 1)), xs[Len(xs)])

_extract_largest_from_srcset(srcset_value) ==
  IF srcset_value = "" THEN None
  ELSE LET candidates == SrcsetCandidates(Split(srcset_value, ","))
       IN  IF candidates = <<>> THEN None
           ELSE Some(SortDesc(candidates)[1].url)

(***************************************************************************)
(* html.unescape: one left-to-right pass of                                *)
(* re.sub(r'&(#[0-9]+;?|#[xX][0-9a-fA-F]+;?|[^\t\n\f <&#;]{1,32};?)').     *)
(* Modelled for the named references quot, amp, lt, gt (with or without    *)
(* the semicolon), apos; and the decimal references of the same            *)
(* characters; any other reference is left as written.                     *)
(***************************************************************************)
CharrefStop == {"\t", "\n", "\f", " ", "<", "&", "#", ";"}

EntityNames == {"quot;", "quot", "amp;", "amp", "lt;", "lt", "gt;", "gt", "apos;"}

EntityValue(name) ==
  CASE name \in {"quot;", "quot"} -> "\""
    [] name \in {"amp;", "amp"} -> "&"
    [] name \in {"lt;", "lt"} -> "<"
    [] name \in {"gt;", "gt"} -> ">"
    [] name = "apos;" -> "'"

\* the loop "for x in range(len(s)-1, 1, -1)" of _replace_charref
RECURSIVE LongestEntityPrefix(_, _)
LongestEntityPrefix(s, x) ==
  IF x < 2 THEN "&" \o s
  ELSE IF SubSeq(s, 1, x) \in EntityNames
       THEN EntityValue(SubSeq(s, 1, x)) \o SubSeq(s, x + 1, Len(s))
       ELSE LongestEntityPrefix(s, x - 1)

NamedCharref(s) ==
  IF s \in EntityNames THEN EntityValue(s) ELSE LongestEntityPrefix(s, Len(s) - 1)

NumericCharref(s, digits) ==
  LET n == ParseInt(digits)
  IN  CASE n = 34 -> "\"" [] n = 38 -> "&" [] n = 39 -> "'"
        [] n = 60 -> "<" [] n = 62 -> ">" [] OTHER -> "&" \o s

Min(a, b) == IF a <= b THEN a ELSE b

RECURSIVE UnescapeFrom(_, _)
UnescapeFrom(s, i) ==
  LET k == SkipNotIn(s, i, {"&"})
  IN  IF k > Len(s) THEN SubSeq(s, i, Len(s))
      ELSE
        LET d   == SkipIn(s, k + 2, Digits)
            e   == Min(SkipNotIn(s, k + 1, CharrefStop), k + 1 + 32)
            num == Ch(s, k + 1) = "#" /\ d > k + 2
            nam == e > k + 1
            stop == IF num THEN d ELSE e
            end == IF Ch(s, stop) = ";" THEN stop + 1 ELSE stop
        IN  SubSeq(s, i, k - 1) \o
            ( IF num
              THEN NumericCharref(SubSeq(s, k + 1, end - 1), SubSeq(s, k + 2, d - 1))
                     \o UnescapeFrom(s, end)
              ELSE IF nam
              THEN NamedCharref(SubSeq(s, k + 1, end - 1)) \o UnescapeFrom(s, end)
              ELSE "&" \o UnescapeFrom(s, k + 1) )

\* markup left as it is
unescapeMutant(s) == s

unescape(s) == UnescapeFrom(s, 1)

(***************************************************************************)
(* The patterns of _extract_hd_from_page_json.                             *)
(***************************************************************************)
\* "<key>"\s*:\s* matched at position p: the position after it, 0 if none
AfterKey(html, p, key) ==
  LET lit == "\"" \o key \o "\""
      a == SkipIn(html, p + Len(lit), Whitespace)
  IN  IF StartsAt(html, p, lit) /\ Ch(html, a) = ":"
      THEN SkipIn(html, a + 1, Whitespace)
      ELSE 0

\* "(https:[^"\\]+)" matched at position c: the group, or None
QuotedHttpsAt(html, c) ==
  LET e == SkipNotIn(html, c + 7, {"\"", "\\"})
  IN  IF c >= 1 /\ StartsAt(html, c, "\"https:") /\ e > c + 7 /\ Ch(html, e) = "\""
      THEN Some(SubSeq(html, c + 1, e - 1))
      ELSE None

\* \[[^\]]+\] or \{[^}]+\} matched at position c: the position of the closing
\* bracket, 0 if none
BracketSpanEnd(html, c, open, close) ==
  LET e == SkipNotIn(html, c + 1, {close})
  IN  IF c >= 1 /\ Ch(html, c) = open /\ e > c + 1 /\ e <= Len(html) THEN e ELSE 0

\* the least element of a non-empty set of positions
Leftmost(S) == CHOOSE i \in S : \A j \in S : i <= j

\* re.search(r'"<key>"\s*:\s*"(https:[^"\\]+)"', html): the group of the
\* leftmost match, or None
SearchKeyUrl(html, key) ==
  LET hits == { q \in 1..Len(html) :
                  /\ Ch(html, q) = "\""
                  /\ QuotedHttpsAt(html, AfterKey(html, q, key)) # None }
  IN  IF hits = {} THEN None
      ELSE QuotedHttpsAt(html, AfterKey(html, Leftmost(hits), key))

\* re.search(r'"<key>"\s*:\s*' + bracketed span): the leftmost match, as
\* [start, open, end] (start of the match, its opening and closing bracket)
SearchKeySpan(html, key, open, close) ==
  LET hits == { q \in 1..Len(html) :
                  /\ Ch(html, q) = "\""
                  /\ BracketSpanEnd(html, AfterKey(html, q, key), open, close) # 0 }
      q0 == Leftmost(hits)
      c0 == AfterKey(html, q0, key)
  IN  IF hits = {} THEN None
      ELSE Some([start |-> q0, open |-> c0,
                 end |-> BracketSpanEnd(html, c0, open, close)])

(***************************************************************************)
(* json.loads, for the JSON this model's pages carry: arrays, objects,     *)
(* strings (escapes \" \\ \/ only), integers, null, true, false.  A parse  *)
(* returns [ok, pos, val]: pos is the position after the value.  Of an     *)
(* object only the members "width" and "url" are kept (Absent when the     *)
(* object has none); of a nested array only that it is one.                *)
(***************************************************************************)
JsonWs == {" ", "\t", "\n", "\r"}

IntV(n) == [t |-> "int", n |-> n]

StrV(str) == [t |-> "str", s |-> str]

NullV == [t |-> "null"]

BoolV == [t |-> "bool"]

ListV == [t |-> "list"]

Absent == [t |-> "absent"]

ObjV(width, url) == [t |-> "dict", width |-> width, url |-> url]

JsonFail == [ok |-> FALSE, pos |-> 0, val |-> NullV]

JsonOk(pos, val) == [ok |-> TRUE, pos |-> pos, val |-> val]

\* the characters of a string literal from position i to its closing quote
RECURSIVE JsonStringBody(_, _, _)
JsonStringFrom(s, e, run) ==
  IF e > Len(s) THEN JsonFail
  ELSE IF Ch(s, e) = "\"" THEN JsonOk(e + 1, StrV(run))
  ELSE IF Ch(s, e + 1) \in {"\"", "\\", "/"}
       THEN JsonStringBody(s, e + 2, run \o Ch(s, e + 1))
       ELSE JsonFail

JsonStringRun(s, i, e, acc) == JsonStringFrom(s, e, acc \o SubSeq(s, i, e - 1))

JsonStringBody(s, i, acc) == JsonStringRun(s, i, SkipNotIn(s, i, {"\"", "\\"}), acc)

\* an integer; a fraction or an exponent is outside the model
JsonDigits(s, b, e, sign) ==
  IF e = b \/ (e > b + 1 /\ Ch(s, b) = "0") \/ Ch(s, e) \in {".", "e", "E"}
  THEN JsonFail
  ELSE JsonOk(e, IntV(sign * ParseInt(SubSeq(s, b, e - 1))))

JsonNumber(s, i) ==
  IF Ch(s, i) = "-" THEN JsonDigits(s, i + 1, SkipIn(s, i + 1, Digits), -1)
  ELSE JsonDigits(s, i, SkipIn(s, i, Digits), 1)

RECURSIVE JsonValue(_, _)
RECURSIVE JsonMembers(_, _, _, _)
RECURSIVE JsonElements(_, _, _)

\* after a member's value, at position n: "}" ends the object, "," goes on
MemberNext(s, n, width, url) ==
  IF Ch(s, n) = "}" THEN JsonOk(n + 1, ObjV(width, url))
  ELSE IF Ch(s, n) = "," THEN JsonMembers(s, n + 1, width, url)
  ELSE JsonFail

\* the member name : v, keeping the last "width" and the last "url" seen
MemberEnd(s, name, v, width, url) ==
  IF ~ v.ok THEN JsonFail
  ELSE MemberNext(s, SkipIn(s, v.pos, JsonWs),
                  IF name = "width" THEN v.val ELSE width,
                  IF name = "url" THEN v.val ELSE url)

MemberValue(s, name, c, width, url) ==
  IF Ch(s, c) = ":" THEN MemberEnd(s, name, JsonValue(s, c + 1), width, url)
  ELSE JsonFail

MemberColon(s, key, width, url) ==
  IF ~ key.ok THEN JsonFail
  ELSE MemberValue(s, key.val.s, SkipIn(s, key.pos, JsonWs), width, url)

MemberKey(s, k, width, url) ==
  IF Ch(s, k) = "\"" THEN MemberColon(s, JsonStringBody(s, k + 1, ""), width, url)
  ELSE JsonFail

\* the members of an object from position i (after "{" or ",")
JsonMembers(s, i, width, url) == MemberKey(s, SkipIn(s, i, JsonWs), width, url)

\* after an element, at position n: "]" ends the array, "," goes on
ElementNext(s, n, acc) ==
  IF Ch(s, n) = "]" THEN JsonOk(n + 1, acc)
  ELSE IF Ch(s, n) = "," THEN JsonElements(s, n + 1, acc)
  ELSE JsonFail

ElementEnd(s, v, acc) ==
  IF ~ v.ok THEN JsonFail
  ELSE ElementNext(s, SkipIn(s, v.pos, JsonWs), Append(acc, v.val))

\* the elements of an array from position i (after "[" or ",")
JsonElements(s, i, acc) == ElementEnd(s, JsonValue(s, i), acc)

\* the inside of an object or an array, from the first position k after the
\* opening bracket that holds no white space
JsonObjectAt(s, k) ==
  IF Ch(s, k) = "}" THEN JsonOk(k + 1, ObjV(Absent, Absent))
  ELSE JsonMembers(s, k, Absent, Absent)

JsonArrayAt(s, k) ==
  IF Ch(s, k) = "]" THEN JsonOk(k + 1, <<>>) ELSE JsonElements(s, k, <<>>)

AsListV(r) == IF r.ok THEN JsonOk(r.pos, ListV) ELSE JsonFail

JsonValueAt(s, k) ==
  CASE Ch(s, k) = "\"" -> JsonStringBody(s, k + 1, "")
    [] Ch(s, k) = "{" -> JsonObjectAt(s, SkipIn(s, k + 1, JsonWs))
    [] Ch(s, k) = "[" -> AsListV(JsonArrayAt(s, SkipIn(s, k + 1, JsonWs)))
    [] Ch(s, k) \in Digits \cup {"-"} -> JsonNumber(s, k)
    [] StartsAt(s, k, "null") -> JsonOk(k + 4, NullV)
    [] StartsAt(s, k, "true") -> JsonOk(k + 4, BoolV)
    [] StartsAt(s, k, "false") -> JsonOk(k + 5, BoolV)
    [] OTHER -> JsonFail

JsonValue(s, i) == JsonValueAt(s, SkipIn(s, i, JsonWs))

\* the whole text must be the array, but for trailing white space
JsonWhole(text, r) ==
  IF r.ok /\ SkipIn(text, r.pos, JsonWs) = Len(text) + 1 THEN Some(r.val) ELSE None

\* json.loads of a text that starts with "[": the list of its elements, or
\* None when json.loads raises
JsonLoadsList(text) == JsonWhole(text, JsonArrayAt(text, SkipIn(text, 2, JsonWs)))

(***************************************************************************)
(* _extract_hd_from_page_json                                              *)
(***************************************************************************)
\* code-point order of the printable ASCII characters (the grave accent
\* left out), for str < str
AsciiOrder ==
  " !\"#$%&'()*+,-./0123456789:;<=>?@ABCDEFGHIJKLMNOPQRSTUVWXYZ[\\]^_abcdefghijklmnopqrstuvwxyz{|}~"

Rank(c) == SkipNotIn(AsciiOrder, 1, {c})

RECURSIVE StrLess(_, _)
StrLess(a, b) ==
  IF b = "" THEN FALSE
  ELSE IF a = "" THEN TRUE
  ELSE IF Ch(a, 1) = Ch(b, 1) THEN StrLess(Tail(a), Tail(b))
  ELSE Rank(Ch(a, 1)) < Rank(Ch(b, 1))

\* v.get("width", 0)
WidthKey(v) == IF v.width = Absent THEN IntV(0) ELSE v.width

\* Python's < on two sort keys of the same type
KeyLess(a, b) == IF a.t = "int" THEN a.n < b.n ELSE StrLess(a.s, b.s)

\* < raises TypeError unless the keys are all int or all str (a list of one
\* element is never compared)
KeysComparable(versions) ==
  \/ Len(versions) < 2
  \/ \A i \in 1..Len(versions) : WidthKey(versions[i]).t = "int"
  \/ \A i \in 1..Len(versions) : WidthKey(versions[i]).t = "str"

\* versions.sort(key=lambda v: v.get("width", 0), reverse=True): stable
RECURSIVE InsertVersion(_, _)
InsertVersion(sorted, x) ==
  IF sorted = <<>> THEN <<x>>
  ELSE IF ~ KeyLess(WidthKey(Head(sorted)), WidthKey(x))
       THEN <<Head(sorted)>> \o InsertVersion(Tail(sorted), x)
       ELSE <<x>> \o sorted

RECURSIVE SortVersions(_)
SortVersions(xs) ==
  IF xs = <<>> THEN <<>>
  ELSE InsertVersion(SortVersions(SubSeq(xs, 1, Len(xs) - 1)), xs[Len(xs)])

\* v.get("url"), as an optional value
GetUrl(v) ==
  CASE v.url = Absent -> None
    [] v.url = NullV -> None
    [] v.url.t = "str" -> Some(v.url.s)
    [] OTHER -> Some(v.url)

\* what one strategy does: return a value, or leave it to the next one
Returned(value) == [returned |-> TRUE, value |-> value]

NotReturned == [returned |-> FALSE, value |-> None]

\* lines 74-76 on the parsed list; an AttributeError (an element that is no
\* dict) or a TypeError (keys that do not compare) is caught at line 77
VersionsOfList(versions) ==
  IF versions = <<>> THEN NotReturned
  ELSE IF \E i \in 1..Len(versions) : versions[i].t # "dict" THEN NotReturned
  ELSE IF ~ KeysComparable(versions) THEN NotReturned
  ELSE Returned(GetUrl(SortVersions(versions)[1]))

VersionsOfParsed(parsed) ==
  IF parsed = None THEN NotReturned ELSE VersionsOfList(parsed[1])

\* lines 70-78
VersionsOfMatch(html, m) ==
  IF m = None THEN NotReturned
  ELSE VersionsOfParsed(JsonLoadsList(SubSeq(html, m[1].open, m[1].end)))

\* lines 79-84
InfoOfMatch(html, m) ==
  IF m = None THEN None
  ELSE SearchKeyUrl(SubSeq(html, m[1].start, m[1].end), "url")

ReturnIfFound(m) == IF m = None THEN NotReturned ELSE Returned(m)

Strategy(name, html) ==
  CASE name = "hd" ->
         ReturnIfFound(SearchKeyUrl(html, "profile_pic_url_hd"))
    [] name = "versions" ->
         VersionsOfMatch(html, SearchKeySpan(html, "hd_profile_pic_versions", "[", "]"))
    [] name = "info" ->
         ReturnIfFound(InfoOfMatch(html,
                         SearchKeySpan(html, "hd_profile_pic_url_info", "{", "}")))

FirstReturned(r1, r2, r3) ==
  IF r1.returned THEN r1.value
  ELSE IF r2.returned THEN r2.value
  ELSE IF r3.returned THEN r3.value
  ELSE None

\* the strategies of lines 67-84 on the unescaped markup, in the order given
HdStrategies(html, order) ==
  FirstReturned(Strategy(order[1], html), Strategy(order[2], html),
                Strategy(order[3], html))

\* the strategies with the versions array tried first
_extract_hd_from_page_json_versions_first(driver) ==
  IF ~ driver.alive THEN None
  ELSE HdStrategies(unescape(driver.page_source), <<"versions", "hd", "info">>)

\* driver.page_source raises when the browser is gone; the outer except
\* turns that into None
_extract_hd_from_page_json(driver) ==
  IF ~ driver.alive THEN None
  ELSE HdStrategies(unescape(driver.page_source), <<"hd", "versions", "info">>)

(***************************************************************************)
(* The "account does not exist" check of fetch_pfp / download_pfp:         *)
(* re.search(r"Sorry, this page isn(?:'|U+2019)t available\\.", html,      *)
(* re.I).  In the raw string the pattern ends with \\ and . : an escaped   *)
(* backslash followed by any character but a newline.                      *)
(***************************************************************************)
RSQUO == "~"

UpperCase == "ABCDEFGHIJKLMNOPQRSTUVWXYZ"

LowerCase == "abcdefghijklmnopqrstuvwxyz"

\* str.lower() of one ASCII character
LowerCh(c) ==
  LET k == SkipNotIn(UpperCase, 1, {c})
  IN  IF c # "" /\ k <= Len(UpperCase) THEN Ch(LowerCase, k) ELSE c

\* the lower-case literal lit occurs in s at position i, ignoring case
StartsAtIgnoreCase(s, i, lit) ==
  /\ i >= 1
  /\ i + Len(lit) - 1 <= Len(s)
  /\ \A k \in 1..Len(lit) : LowerCh(Ch(s, i + k - 1)) = Ch(lit, k)

\* the tail of the pattern, matched at position e (after "available")
NotFoundTail(html, e) ==
  /\ Ch(html, e) = "\\"
  /\ e + 1 <= Len(html)
  /\ Ch(html, e + 1) # "\n"

NotFoundTemplateAt(html, p) ==
  /\ StartsAtIgnoreCase(html, p, "sorry, this page isn")
  /\ Ch(html, p + 20) \in {"'", RSQUO}
  /\ StartsAtIgnoreCase(html, p + 21, "t available")
  /\ NotFoundTail(html, p + 32)

NotFoundTemplateSearch(html) ==
  \E p \in 1..Len(html) : Ch(html, p) \in {"s", "S"} /\ NotFoundTemplateAt(html, p)

(***************************************************************************)
(* The image element lookup: By.CSS_SELECTOR                               *)
(* "img[alt*='profile picture'], img[alt*='profile photo']" finds the      *)
(* first img of the document whose alt contains either phrase.             *)
(***************************************************************************)
Contains(s, sub) == \E p \in 1..Len(s) : StartsAt(s, p, sub)

MatchesSelector(img) ==
  Contains(img.alt, "profile picture") \/ Contains(img.alt, "profile photo")

\* presence_of_element_located within the wait: the element, or None when
\* the wait ends in TimeoutException
\* the first img of the document, whatever its alt
LocateImageMutant(dom) == IF dom = <<>> THEN None ELSE Some(dom[1])

LocateImage(dom) ==
  LET hits == { i \in 1..Len(dom) : MatchesSelector(dom[i]) }
  IN  IF hits = {} THEN None ELSE Some(dom[Leftmost(hits)])

\* x or "" for an attribute that may be missing
OrEmpty(attr) == IF attr = None THEN "" ELSE attr[1]

\* Python truth of an Optional[str]
Truthy(opt) == opt # None /\ opt # Some("")

\* src preferred to the srcset
BestOfElementMutant(img) ==
  IF OrEmpty(img.src) # "" THEN OrEmpty(img.src)
  ELSE OrEmpty(_extract_largest_from_srcset(OrEmpty(img.srcset)))

\* _extract_largest_from_srcset(srcset) or src
BestOfElement(img) ==
  LET largest_url == _extract_largest_from_srcset(OrEmpty(img.srcset))
  IN  IF Truthy(largest_url) THEN largest_url[1] ELSE OrEmpty(img.src)

(***************************************************************************)
(* username.lstrip('@') and the profile URL.                               *)
(***************************************************************************)
\* one leading c removed
lstripMutant(s, c) == IF Ch(s, 1) = c THEN SubSeq(s, 2, Len(s)) ELSE s

lstrip(s, c) == SubSeq(s, SkipIn(s, 1, {c}), Len(s))

ProfileUrl(username) == "https://www.instagram.com/" \o username \o "/"

(***************************************************************************)
(* download_pfp's file name: the extension of the URL's path.              *)
(***************************************************************************)
\* urlparse(url).path for scheme://netloc/path?query#fragment
UrlPath(url) ==
  LET a == SkipNotIn(url, 1, {":"})
      hasNetloc == StartsAt(url, a, "://")
      b == IF hasNetloc THEN SkipNotIn(url, a + 3, {"/", "?", "#"}) ELSE 1
      e == SkipNotIn(url, b, {"?", "#"})
  IN  SubSeq(url, b, e - 1)

\* position of the last occurrence of c in s, 0 if none
LastIndexOf(s, c) ==
  LET hits == { i \in 1..Len(s) : Ch(s, i) = c }
  IN  IF hits = {} THEN 0 ELSE CHOOSE i \in hits : \A j \in hits : j <= i

RECURSIVE Lower(_)
Lower(s) == IF s = "" THEN "" ELSE LowerCh(Ch(s, 1)) \o Lower(Tail(s))

FileExt(url) ==
  LET path == UrlPath(url)
      tail == SubSeq(path, LastIndexOf(path, "/") + 1, Len(path))
      ext  == Lower(SubSeq(tail, LastIndexOf(tail, ".") + 1, Len(tail)))
  IN  IF LastIndexOf(tail, ".") = 0 THEN "jpg"
      ELSE IF ext \in {"jpg", "jpeg", "png", "webp"} THEN ext ELSE "jpg"

FilePath(username, url) == "downloads/" \o username \o "." \o FileExt(url)

(***************************************************************************)
(* What the caller of fetch_pfp / download_pfp gets at each way out.       *)
(***************************************************************************)
Return(value) == [kind |-> "return", status |-> 0, detail |-> "", value |-> value]

HTTPException(status, detail) ==
  [kind |-> "HTTPException", status |-> status, detail |-> detail, value |-> None]

Raise(exc) == [kind |-> "raise", status |-> 0, detail |-> exc, value |-> None]

NoResult == [kind |-> "none", status |-> 0, detail |-> "", value |-> None]

\* the result of a failing way out: the account page is the not-found
\* template ("template"), the image element did not appear ("timeout"), no
\* strategy gave a URL ("no_url"), a driver call raised ("driver_error")
FailureResult(variant, exit) ==
  IF variant = "download_pfp" THEN Return(None)
  ELSE CASE exit = "template" -> HTTPException(404, "Username not found")
         [] exit = "timeout" -> HTTPException(404, "Image not found")
         [] exit = "no_url" -> HTTPException(404, "Image not found")
         [] exit = "driver_error" -> Raise("WebDriverException")

\* the message download_pfp logs on a failing way out (fetch_pfp logs none);
\* the text of the exception that ends the last one is left out
FailureLog(variant, exit, user) ==
  IF variant = "fetch_pfp" THEN ""
  ELSE CASE exit = "template" -> "Username not found: @" \o user
         [] exit = "timeout" -> "Timed out waiting for profile image; profile may not exist or is not accessible"
         [] exit = "no_url" -> "Could not find profile image URL"
         [] exit \in {"driver_error", "download_error"} -> "Failed to retrieve or download PFP: "

\* the outcome of the specification's taxonomy each way out stands for
Outcome(exit) ==
  CASE exit = "found" -> "Found"
    [] exit = "template" -> "NotFound"
    [] exit = "timeout" -> "NotFound"
    [] exit = "no_url" -> "ExtractionFailed"
    [] exit \in {"create_error", "driver_error"} -> "FetchFailed"
    [] exit = "download_error" -> "DownloadFailed"
    [] OTHER -> "None"

(***************************************************************************)
(* State.                                                                  *)
(***************************************************************************)
VARIABLES
  pc,            \* position of the call being modelled
  srcset_parts,  \* the descriptor's comma-separated entries, as composed
  srcset_value,  \* argument of _extract_largest_from_srcset
  largest,       \* its return value
  frags,         \* the pieces the page markup is composed of
  driver,        \* the browser: [alive, page_source]
  hd_url,        \* return value of _extract_hd_from_page_json
  variant,       \* "fetch_pfp" (api.py) or "download_pfp" (main.py)
  arg,           \* the username passed in: ats leading "@", then handle
  username,      \* the local variable username
  page,          \* what the site serves: [template, dom]
  profile_url,   \* the URL handed to driver.get
  session,       \* "none", "open", or "quit" once driver.quit was called
  quit_calls,    \* [calls, raised]: calls of driver.quit, and whether one raised
  img_el,        \* the located image element, or None
  best_url,      \* the local variable best_url (None before it is assigned)
  hd_attempted,  \* whether _extract_hd_from_page_json was called
  exit,          \* the way out taken ("" while running)
  result,        \* what the caller gets
  log            \* the last logger.error message

srcsetVars == <<srcset_parts, srcset_value, largest>>

jsonVars == <<frags, hd_url>>

callVars == <<variant, arg, username, page, profile_url, session, quit_calls,
              img_el, best_url, hd_attempted, exit, result, log>>

vars == <<pc, srcsetVars, jsonVars, driver, callVars>>

NoDriver == [alive |-> FALSE, page_source |-> ""]

NoPage == [template |-> "", dom |-> <<>>]

NoQuit == [calls |-> 0, raised |-> FALSE]

IdleSrcset == srcset_parts = <<>> /\ srcset_value = "" /\ largest = None

IdleJson == frags = <<>> /\ hd_url = None

IdleCall ==
  /\ variant = "" /\ arg = [ats |-> 0, handle |-> ""] /\ username = ""
  /\ page = NoPage /\ profile_url = "" /\ session = "none" /\ quit_calls = NoQuit
  /\ img_el = None /\ best_url = None /\ hd_attempted = FALSE
  /\ exit = "" /\ result = NoResult /\ log = ""

(***************************************************************************)
(* Srcset descriptors: up to MaxSegs entries joined by commas.  Each pool  *)
(* entry records its text and, separately, what a reader of the srcset     *)
(* syntax takes it to mean (valid or not; url and decimal width).          *)
(***************************************************************************)
MaxSegs == 3

Entry(text, url, width) == [text |-> text, valid |-> TRUE, url |-> url, width |-> width]

Junk(text) == [text |-> text, valid |-> FALSE, url |-> "", width |-> 0]

SegmentPool ==
  { Entry("a.jpg 150w", "a.jpg", 150),
    Entry("b.jpg 640w", "b.jpg", 640),
    Entry("c.jpg 320w", "c.jpg", 320),
    Entry(" d.jpg 640w", "d.jpg", 640),
    Entry("e.jpg \t1080w ", "e.jpg", 1080),
    Entry("f.jpg 0640w", "f.jpg", 640),
    Entry("g.jpg 99w", "g.jpg", 99),
    Entry("h.jpg 0w", "h.jpg", 0),
    Entry("i.jpg 320w 2x", "i.jpg", 320),
    Entry("j.jpg 1080wide", "j.jpg", 1080),
    Junk(""),
    Junk(" "),
    Junk("bogus"),
    Junk("k.jpg 2x"),
    Junk("l.jpg 640"),
    Junk("m.jpg640w"),
    Junk("640w"),
    Junk("n.jpg 640 w"),
    Junk("o.jpg -640w"),
    Junk("p.jpg 6.5w"),
    Junk("q.jpg r.jpg 640w"),
    Junk("s.jpg w") }

RECURSIVE JoinTexts(_, _)
JoinTexts(parts, sep) ==
  IF parts = <<>> THEN ""
  ELSE IF Len(parts) = 1 THEN parts[1].text
  ELSE parts[1].text \o sep \o JoinTexts(Tail(parts), sep)

SrcsetInputs == UNION { [1..n -> SegmentPool] : n \in 0..MaxSegs }

InitSrcset ==
  /\ pc = "srcset"
  /\ srcset_parts \in SrcsetInputs
  /\ srcset_value = JoinTexts(srcset_parts, ",")
  /\ largest = None
  /\ IdleJson /\ driver = NoDriver /\ IdleCall

SelectLargest ==
  /\ pc = "srcset"
  /\ largest' = _extract_largest_from_srcset(srcset_value)
  /\ pc' = "srcset_done"
  /\ UNCHANGED <<srcset_parts, srcset_value, jsonVars, driver, callVars>>

NextSrcset == SelectLargest

SpecSrcset == InitSrcset /\ [][NextSrcset]_vars

ValidIdx == { i \in 1..Len(srcset_parts) : srcset_parts[i].valid }

WidestIdx ==
  { i \in ValidIdx :
      /\ \A j \in ValidIdx : srcset_parts[j].width <= srcset_parts[i].width
      /\ \A j \in ValidIdx : j < i => srcset_parts[j].width < srcset_parts[i].width }

(***************************************************************************)
(* C1: _extract_largest_from_srcset returns the url of the valid entry of  *)
(* greatest width, the first one in input order when several share that    *)
(* width, and None when the descriptor holds no valid entry (the empty     *)
(* descriptor included).                                                   *)
(***************************************************************************)
SelectLargestReturnsWidest ==
  pc = "srcset_done" =>
    IF ValidIdx = {} THEN largest = None
    ELSE \E i \in WidestIdx : largest = Some(srcset_parts[i].url)

\* a tie for the greatest width between two valid entries, decided
SelectLargestTieWitness ==
  /\ pc = "srcset_done"
  /\ Len(srcset_parts) = 3
  /\ ~ srcset_parts[1].valid
  /\ srcset_parts[2].valid /\ srcset_parts[3].valid
  /\ srcset_parts[2].width = srcset_parts[3].width
  /\ srcset_parts[2].url # srcset_parts[3].url
  /\ largest = Some(srcset_parts[2].url)

(***************************************************************************)
(* Page markup for the embedded-data extractor: up to MaxFrags pieces      *)
(* joined by commas.  Each piece records its text and, separately, what it *)
(* is: kind "hd" / "info" is a key with a quoted https URL free of quotes  *)
(* and backslashes (url), "versions" a hd_profile_pic_versions key whose   *)
(* array is closed, empty or left open in the piece (span); usable says    *)
(* the array is JSON for a non-empty list of objects with integer or       *)
(* absent widths, url then being the url of its first widest object.       *)
(***************************************************************************)
MaxFrags == 2

Frag(kind, text, url, span, usable) ==
  [kind |-> kind, text |-> text, url |-> url, span |-> span, usable |-> usable]

Other(kind, text) == Frag(kind, text, None, "none", FALSE)

HdFrag == Frag("hd", "\"profile_pic_url_hd\":\"https://h/hd1.jpg\"",
               Some("https://h/hd1.jpg"), "none", FALSE)

InfoFrag ==
  Frag("info",
       "\"hd_profile_pic_url_info\":{\"url\":\"https://h/info.jpg\",\"width\":1080,\"height\":1080}",
       Some("https://h/info.jpg"), "none", FALSE)

NoUrlVersionsFrag ==
  Frag("versions",
       "\"hd_profile_pic_versions\":[{\"width\":320,\"url\":\"small.jpg\"},{\"width\":1080,\"height\":1080}]",
       None, "closed", TRUE)

FragPool ==
  { HdFrag,
    Frag("hd", "&quot;profile_pic_url_hd&quot; : &quot;https://h/hd2.jpg?a=1&amp;b=2&quot;",
         Some("https://h/hd2.jpg?a=1&b=2"), "none", FALSE),
    Other("hd_other", "\"profile_pic_url_hd\":\"http://h/plain.jpg\""),
    Other("hd_other", "\"profile_pic_url_hd\":\"https:\\/\\/h\\/esc.jpg\""),
    Other("hd_other", "\"profile_pic_url_hd\":null"),
    Frag("versions",
         "\"hd_profile_pic_versions\":[{\"width\":320,\"url\":\"s.jpg\"},{\"width\":1080,\"url\":\"l.jpg\"}]",
         Some("l.jpg"), "closed", TRUE),
    Frag("versions",
         "&quot;hd_profile_pic_versions&quot;:[{&quot;width&quot;:320,&quot;url&quot;:&quot;es.jpg&quot;},{&quot;width&quot;:1080,&quot;url&quot;:&quot;el.jpg&quot;}]",
         Some("el.jpg"), "closed", TRUE),
    Frag("versions",
         "\"hd_profile_pic_versions\": [{\"url\":\"n.jpg\"}, {\"url\":\"https:\\/\\/h\\/t1.jpg\",\"width\":640,\"height\":640}, {\"width\":640,\"url\":\"t2.jpg\"}]",
         Some("https://h/t1.jpg"), "closed", TRUE),
    Frag("versions",
         "\"hd_profile_pic_versions\":[{\"width\":-5,\"url\":\"neg.jpg\"},{\"url\":\"zero.jpg\"},{\"width\":0,\"url\":\"z2.jpg\"}]",
         Some("zero.jpg"), "closed", TRUE),
    NoUrlVersionsFrag,
    Frag("versions", "\"hd_profile_pic_versions\":[{\"width\":320,\"url\":\"m.jpg\"},]",
         None, "closed", FALSE),
    Frag("versions", "\"hd_profile_pic_versions\":[150,320]", None, "closed", FALSE),
    Frag("versions",
         "\"hd_profile_pic_versions\":[{\"width\":\"1080\",\"url\":\"x1.jpg\"},{\"width\":320,\"url\":\"x2.jpg\"}]",
         None, "closed", FALSE),
    Frag("versions", "\"hd_profile_pic_versions\":[]", None, "empty", FALSE),
    Frag("versions", "\"hd_profile_pic_versions\":[{\"width\":320,\"url\":\"o.jpg\"}",
         None, "open", FALSE),
    InfoFrag,
    Frag("info",
         "&quot;hd_profile_pic_url_info&quot;: {&quot;width&quot;:150,&quot;url&quot; : &quot;https://h/info2.jpg&quot;}",
         Some("https://h/info2.jpg"), "none", FALSE),
    Other("info_other", "\"hd_profile_pic_url_info\":{\"url\":\"http://h/i.jpg\"}"),
    Other("junk", "<div class=\"x\">]}</div>") }

MarkupInputs == UNION { [1..n -> FragPool] : n \in 0..MaxFrags }

InitJson ==
  /\ pc = "json"
  /\ frags \in MarkupInputs
  /\ \E alive \in BOOLEAN :
       driver = [alive |-> alive, page_source |-> JoinTexts(frags, ",")]
  /\ hd_url = None
  /\ IdleSrcset /\ IdleCall

ExtractHd ==
  /\ pc = "json"
  /\ hd_url' = _extract_hd_from_page_json(driver)
  /\ pc' = "json_done"
  /\ UNCHANGED <<srcsetVars, frags, driver, callVars>>

NextJson == ExtractHd

SpecJson == InitJson /\ [][NextJson]_vars

\* the pieces of a kind
OfKind(kind) == { i \in 1..Len(frags) : frags[i].kind = kind }

\* the hd_profile_pic_versions keys the array pattern can match at
ArrayIdx == { i \in OfKind("versions") : frags[i].span # "empty" }

(***************************************************************************)
(* C4: whenever the markup holds a matching "profile_pic_url_hd" pair, the *)
(* extractor returns the URL of the (first) such pair, whatever versions   *)
(* array or url_info object the markup also holds, before or after it.     *)
(***************************************************************************)
HdPairWins ==
  (pc = "json_done" /\ driver.alive /\ OfKind("hd") # {}) =>
     hd_url = frags[Leftmost(OfKind("hd"))].url

\* a versions array with a usable URL precedes the pair, and the pair wins
HdPairWinsWitness ==
  /\ pc = "json_done" /\ driver.alive
  /\ Len(frags) = 2
  /\ frags[1].kind = "versions" /\ frags[1].usable /\ frags[1].url # None
  /\ frags[2].kind = "hd"
  /\ hd_url = frags[2].url

(***************************************************************************)
(* C5: with no profile_pic_url_hd pair, when the first array the versions  *)
(* pattern matches is JSON for a non-empty list of objects with integer or *)
(* absent widths, the extractor returns the url of the object of greatest  *)
(* width (absent width = 0; the first such object on a tie; None when that *)
(* object has no url), also when the markup is entity-escaped.             *)
(***************************************************************************)
VersionsWidestReturned ==
  (/\ pc = "json_done" /\ driver.alive
   /\ OfKind("hd") = {}
   /\ ArrayIdx # {}
   /\ frags[Leftmost(ArrayIdx)].span = "closed"
   /\ frags[Leftmost(ArrayIdx)].usable) =>
     hd_url = frags[Leftmost(ArrayIdx)].url

\* the entity-escaped array of the specification's example
VersionsWidestWitness ==
  /\ pc = "json_done" /\ driver.alive
  /\ Len(frags) = 2
  /\ frags[1].kind = "info"
  /\ frags[2].kind = "versions" /\ frags[2].url = Some("el.jpg")
  /\ hd_url = Some("el.jpg")

InfoKeys == OfKind("info") \cup OfKind("info_other")

(***************************************************************************)
(* C10: when the array parses but its widest object has no url, the        *)
(* extractor goes on to the hd_profile_pic_url_info strategy and returns   *)
(* the nested https url of that object.                                    *)
(***************************************************************************)
MissingUrlFallsThrough ==
  (/\ pc = "json_done" /\ driver.alive
   /\ OfKind("hd") = {}
   /\ ArrayIdx # {}
   /\ frags[Leftmost(ArrayIdx)].span = "closed"
   /\ frags[Leftmost(ArrayIdx)].usable
   /\ frags[Leftmost(ArrayIdx)].url = None
   /\ InfoKeys # {}
   /\ frags[Leftmost(InfoKeys)].kind = "info") =>
     hd_url = frags[Leftmost(InfoKeys)].url

(***************************************************************************)
(* One call of fetch_pfp (api.py) or download_pfp (main.py).               *)
(*                                                                         *)
(* The environment: the username passed in (up to MaxAts leading "@"       *)
(* before a handle), the page the site serves (a not-found text or none,   *)
(* the img elements of the document, the embedded data) and the failures   *)
(* of the browser, the network and the download.                           *)
(***************************************************************************)
MaxAts == 2

HandlePool == {"zuck", "a@b"}

RECURSIVE Repeat(_, _)
Repeat(c, n) == IF n = 0 THEN "" ELSE c \o Repeat(c, n - 1)

\* not_found: the text is the site's "account does not exist" message
Template(text, not_found) == [text |-> text, not_found |-> not_found]

TemplatePool ==
  { Template("", FALSE),
    Template("<h2>Sorry, this page isn't available.</h2>", TRUE),
    Template("<h2>Sorry, this page isn" \o RSQUO \o "t available.</h2>", TRUE),
    Template("<H2>SORRY, THIS PAGE ISN'T AVAILABLE.</H2>", TRUE),
    Template("<script>{\"t\":\"Sorry, this page isn't available\\.\"}</script>", FALSE) }

\* widest: the url of the first widest valid candidate of srcset, if any
Img(alt, src, srcset, widest) ==
  [alt |-> alt, src |-> src, srcset |-> srcset, widest |-> widest]

ImgBoth ==
  Img("zuck's profile picture", Some("https://h/p.jpg"),
      Some("https://h/p.jpg 150w, https://h/q.jpg 750w"), Some("https://h/q.jpg"))

ImgSrcOnly == Img("Photo: profile photo", Some("https://h/r.jpg"), None, None)

ImgJunkSrcset ==
  Img("profile picture", Some("https://h/s.jpg"), Some("bogus, https://h/t.jpg 2x"), None)

ImgSrcsetOnly ==
  Img("profile picture", None, Some("https://h/u.jpg 320w,https://h/v.jpg 320w"),
      Some("https://h/u.jpg"))

ImgBare == Img("profile picture", None, Some(""), None)

ImgLogo ==
  Img("Instagram", Some("https://h/logo.png"), Some("https://h/logo2.png 2000w"),
      Some("https://h/logo2.png"))

DomPool ==
  { <<>>, <<ImgLogo>>, <<ImgBoth>>, <<ImgSrcOnly>>, <<ImgJunkSrcset>>,
    <<ImgSrcsetOnly>>, <<ImgBare>>, <<ImgLogo, ImgBoth>>, <<ImgLogo, ImgBare>> }

EmbeddedPool == { <<>>, <<HdFrag>>, <<InfoFrag>>, <<NoUrlVersionsFrag, InfoFrag>> }

Attr(name, value) ==
  IF value = None THEN "" ELSE " " \o name \o "=\"" \o value[1] \o "\""

RenderImg(img) ==
  "<img alt=\"" \o img.alt \o "\"" \o Attr("src", img.src)
    \o Attr("srcset", img.srcset) \o ">"

RECURSIVE RenderDom(_)
RenderDom(dom) ==
  IF dom = <<>> THEN "" ELSE RenderImg(Head(dom)) \o RenderDom(Tail(dom))

\* driver.page_source once the page is loaded
PageSource(p, embedded) ==
  p.template.text \o RenderDom(p.dom)
    \o "<script>{" \o JoinTexts(embedded, ",") \o "}</script>"

Init ==
  /\ pc = "call"
  /\ variant \in {"fetch_pfp", "download_pfp"}
  /\ arg \in [ats : 0..MaxAts, handle : HandlePool]
  /\ username = Repeat("@", arg.ats) \o arg.handle
  /\ page \in [template : TemplatePool, dom : DomPool]
  /\ frags \in EmbeddedPool
  /\ driver = NoDriver
  /\ profile_url = "" /\ session = "none" /\ quit_calls = NoQuit
  /\ img_el = None /\ best_url = None /\ hd_attempted = FALSE
  /\ exit = "" /\ result = NoResult /\ log = ""
  /\ hd_url = None
  /\ IdleSrcset

\* a not-found exit that skips the finally clause
LeaveMutant(x, res, msg) ==
  /\ pc' = IF x = "template" THEN "done" ELSE "finally"
  /\ exit' = x /\ result' = res /\ log' = msg

\* leaving the try block: the finally clause runs next
Leave(x, res, msg) ==
  /\ pc' = "finally"
  /\ exit' = x /\ result' = res /\ log' = msg

Fail(x) == Leave(x, FailureResult(variant, x), FailureLog(variant, x, username))

\* username = username.lstrip('@')
StripUsername ==
  /\ pc = "call"
  /\ username' = lstrip(username, "@")
  /\ pc' = "create"
  /\ UNCHANGED <<srcsetVars, jsonVars, driver, variant, arg, page, profile_url,
                 session, quit_calls, img_el, best_url, hd_attempted, exit,
                 result, log>>

\* webdriver.Chrome(...), before the try block; fetch_pfp retries once
CreateDriver ==
  /\ pc = "create"
  /\ \E first \in BOOLEAN, retry \in BOOLEAN :
       IF first \/ (variant = "fetch_pfp" /\ retry)
       THEN /\ session' = "open"
            /\ driver' = [alive |-> TRUE, page_source |-> ""]
            /\ pc' = "get"
            /\ UNCHANGED <<exit, result>>
       ELSE /\ pc' = "done"
            /\ exit' = "create_error"
            /\ result' = Raise("WebDriverException")
            /\ UNCHANGED <<session, driver>>
  /\ UNCHANGED <<srcsetVars, jsonVars, variant, arg, username, page, profile_url,
                 quit_calls, img_el, best_url, hd_attempted, log>>

\* driver.get(profile_url)
GetProfile ==
  /\ pc = "get"
  /\ profile_url' = ProfileUrl(username)
  /\ \E loaded \in BOOLEAN :
       IF driver.alive /\ loaded
       THEN /\ driver' = [driver EXCEPT !.page_source = PageSource(page, frags)]
            /\ pc' = "check"
            /\ UNCHANGED <<exit, result, log>>
       ELSE /\ Fail("driver_error")
            /\ UNCHANGED driver
  /\ UNCHANGED <<srcsetVars, jsonVars, variant, arg, username, page, session,
                 quit_calls, img_el, best_url, hd_attempted>>

\* the 404 template check
CheckNotFound ==
  /\ pc = "check"
  /\ IF ~ driver.alive THEN Fail("driver_error")
     ELSE IF NotFoundTemplateSearch(driver.page_source) THEN Fail("template")
     ELSE pc' = "wait" /\ UNCHANGED <<exit, result, log>>
  /\ UNCHANGED <<srcsetVars, jsonVars, driver, variant, arg, username, page,
                 profile_url, session, quit_calls, img_el, best_url, hd_attempted>>

\* WebDriverWait(driver, 0.1).until(presence_of_element_located(...))
WaitForImage ==
  /\ pc = "wait"
  /\ IF ~ driver.alive THEN Fail("driver_error") /\ UNCHANGED img_el
     ELSE IF LocateImage(page.dom) = None THEN Fail("timeout") /\ UNCHANGED img_el
     ELSE /\ img_el' = LocateImage(page.dom)
          /\ pc' = "resolve"
          /\ UNCHANGED <<exit, result, log>>
  /\ UNCHANGED <<srcsetVars, jsonVars, driver, variant, arg, username, page,
                 profile_url, session, quit_calls, best_url, hd_attempted>>

\* src, srcset, best_url = _extract_largest_from_srcset(srcset) or src
ResolveBest ==
  /\ pc = "resolve"
  /\ IF ~ driver.alive THEN Fail("driver_error") /\ UNCHANGED best_url
     ELSE /\ best_url' = Some(BestOfElement(img_el[1]))
          /\ pc' = "fallback"
          /\ UNCHANGED <<exit, result, log>>
  /\ UNCHANGED <<srcsetVars, jsonVars, driver, variant, arg, username, page,
                 profile_url, session, quit_calls, img_el, hd_attempted>>

\* if not best_url: best_url = _extract_hd_from_page_json(driver)
FallbackJson ==
  /\ pc = "fallback"
  /\ IF ~ Truthy(best_url)
     THEN best_url' = _extract_hd_from_page_json(driver) /\ hd_attempted' = TRUE
     ELSE UNCHANGED <<best_url, hd_attempted>>
  /\ pc' = "finish"
  /\ UNCHANGED <<srcsetVars, jsonVars, driver, variant, arg, username, page,
                 profile_url, session, quit_calls, img_el, exit, result, log>>

\* if not best_url: fail; else return it (fetch_pfp) or download it and
\* return the file path (download_pfp)
Finish ==
  /\ pc = "finish"
  /\ IF ~ Truthy(best_url) THEN Fail("no_url")
     ELSE IF variant = "fetch_pfp" THEN Leave("found", Return(best_url), "")
     ELSE \E downloaded \in BOOLEAN :
            IF downloaded
            THEN Leave("found", Return(Some(FilePath(username, best_url[1]))), "")
            ELSE Fail("download_error")
  /\ UNCHANGED <<srcsetVars, jsonVars, driver, variant, arg, username, page,
                 profile_url, session, quit_calls, img_el, best_url, hd_attempted>>

\* finally: try: driver.quit() except Exception: pass
Quit ==
  /\ pc = "finally"
  /\ \E raised \in BOOLEAN :
       quit_calls' = [calls |-> quit_calls.calls + 1, raised |-> raised]
  /\ session' = "quit"
  /\ pc' = "done"
  /\ UNCHANGED <<srcsetVars, jsonVars, driver, variant, arg, username, page,
                 profile_url, img_el, best_url, hd_attempted, exit, result, log>>

\* the browser dies while the call is using it
BrowserCrash ==
  /\ pc \in {"get", "check", "wait", "resolve", "fallback"}
  /\ driver.alive
  /\ driver' = [driver EXCEPT !.alive = FALSE]
  /\ UNCHANGED <<pc, srcsetVars, jsonVars, callVars>>

Next ==
  \/ StripUsername
  \/ CreateDriver
  \/ GetProfile
  \/ CheckNotFound
  \/ WaitForImage
  \/ ResolveBest
  \/ FallbackJson
  \/ Finish
  \/ Quit
  \/ BrowserCrash

Spec == Init /\ [][Next]_vars

(***************************************************************************)
(* Properties of one call.                                                 *)
(***************************************************************************)
FailureExits == {"template", "timeout", "no_url", "driver_error"}

PageLoaded == driver.page_source # ""

NoProfileImage == \A i \in 1..Len(page.dom) : ~ MatchesSelector(page.dom[i])

\* C2 (as stated): whenever the loaded markup contains the site's text
\* "Sorry, this page isn't available." and the browser stays up, the call
\* ends at the not-found check, before the image element is looked up or
\* the embedded data is searched
TemplateEndsInNotFound ==
  (pc = "done" /\ PageLoaded /\ driver.alive /\ page.template.not_found) =>
    (exit = "template" /\ img_el = None /\ ~ hd_attempted)

\* what the element's attributes should resolve to
WidestCandidate(img) == IF img.widest # None THEN img.widest[1] ELSE OrEmpty(img.src)

\* C3: once the image element is found, best_url is the first widest valid
\* srcset candidate when the srcset has one, and the element's src
\* otherwise; fetch_pfp returns that widest candidate
WidestOverSrc ==
  /\ (pc = "fallback") => (best_url = Some(WidestCandidate(img_el[1])))
  /\ (pc = "done" /\ exit = "found" /\ variant = "fetch_pfp" /\ img_el[1].widest # None) =>
       (result = Return(img_el[1].widest))

WidestOverSrcWitness ==
  /\ pc = "done" /\ exit = "found" /\ variant = "fetch_pfp"
  /\ img_el = Some(ImgBoth)
  /\ result = Return(Some("https://h/q.jpg"))

FailuresDistinguishable ==
  (pc = "done" /\ exit \in FailureExits) =>
    \A other \in FailureExits :
      (Outcome(other) # Outcome(exit)) => (result # FailureResult(variant, other))

\* C8: driver.quit is called exactly once, on leaving, for every session
\* that was created, whatever the way out; no call ends with its session
\* still open; and the result is the one of the way out taken, also when
\* quit raised
TornDownOnEveryExit ==
  /\ (pc # "done") => (quit_calls.calls = 0)
  /\ (pc = "done") =>
       /\ session # "open"
       /\ quit_calls.calls = (IF exit = "create_error" THEN 0 ELSE 1)
       /\ (exit \in FailureExits) => (result = FailureResult(variant, exit))
       /\ (exit = "download_error") => (result = Return(None))
       /\ (exit = "found") => (result.kind = "return" /\ Truthy(result.value))

TornDownOnEveryExitWitness ==
  /\ pc = "done" /\ exit = "template"
  /\ quit_calls = [calls |-> 1, raised |-> TRUE]
  /\ result = FailureResult(variant, "template")

\* C9 (as stated): the URL is built from the username less one leading
\* "@": of k >= 1 leading "@", k-1 stay
StripsOneAt ==
  (profile_url # "") =>
    (profile_url = ProfileUrl(Repeat("@", IF arg.ats = 0 THEN 0 ELSE arg.ats - 1) \o arg.handle))

\* C9 (amended): the URL is built from the username less all its leading
\* "@"; an "@" further in is kept
StripsAllAts == (profile_url # "") => (profile_url = ProfileUrl(arg.handle))

StripsAllAtsWitness ==
  /\ arg = [ats |-> 2, handle |-> "a@b"]
  /\ profile_url = "https://www.instagram.com/a@b/"

====
